---- MODULE Spec2Model ----
(***************************************************************************)
(* Model of the route optimizer in src/main.py: optimize_route geocodes    *)
(* the addresses, builds the travel-time matrix with one HERE request per  *)
(* ordered pair, runs the OR-Tools constructor and the nearest-neighbour   *)
(* constructor on that matrix and evaluates both tours.                    *)
(*                                                                         *)
(* Python lists are sequences; Python indices are 0-based and are kept     *)
(* 0-based as values, so element i of a list s is s[i + 1].                *)
(***************************************************************************)
EXTENDS Integers, Sequences, FiniteSets

\* Largest number of addresses of one request.
MaxN == 3

\* Longest index sequence handed to calculate_total_travel_time as a free tour.
MaxTourLen == 3

\* float('inf'): larger than every duration, absorbing under addition.
Inf == 1000000

\* What solve_tsp returns when the backend has no solution (None).
None == << >>

VARIABLES
    addresses,                      \* the request: list of addresses
    traffic,                        \* which durations the routing API reports
    pc,                             \* position of optimize_route
    error,                          \* the exception that ended the request
    next_address,                   \* geocode_addresses: loop position
    locations,                      \* geocode_addresses: locations
    not_found,                      \* addresses the geocoder answered None for
    time_matrix,                    \* get_osm_traffic_time_matrix: time_matrix
    row,                            \* get_osm_traffic_time_matrix: row
    calls,                          \* log of the routing API requests
    solver,                         \* outcome of routing.SolveWithParameters
    ortools_route_indices,          \* optimize_route local
    ortools_travel_time,            \* optimize_route local
    visited,                        \* solve_tsp_nearest_neighbor: visited
    route,                          \* solve_tsp_nearest_neighbor: route
    current_index,                  \* solve_tsp_nearest_neighbor: current_index
    nearest_neighbor_route_indices, \* optimize_route local
    result                          \* the dictionary optimize_route returns

vars == << addresses, traffic, pc, error, next_address, locations, not_found,
           time_matrix, row, calls, solver, ortools_route_indices,
           ortools_travel_time, visited, route, current_index,
           nearest_neighbor_route_indices, result >>

N == Len(addresses)

----------------------------------------------------------------------------
(* Helpers for Python lists and floats *)

\* s[i] of a Python list.
At(s, i) == s[i + 1]

\* time_matrix[i][j].
Cell(m, i, j) == m[i + 1][j + 1]

\* a + b on Python numbers where Inf stands for float('inf').
FloatAdd(a, b) == IF a = Inf \/ b = Inf THEN Inf ELSE a + b

\* [addresses[i] for i in indices]
AddressesOf(indices) == [k \in 1..Len(indices) |-> At(addresses, indices[k])]

----------------------------------------------------------------------------
(* The routing API: data['routes'][0]['sections'][0]['summary']['duration'] *)

TrafficTables == {"uniform", "directed"}

Duration(origin, destination) ==
    IF traffic = "uniform" THEN 1
    ELSE 1 + ((2 * origin.lat + destination.lat) % 3)

----------------------------------------------------------------------------
(* geocode_addresses *)

\* {'lat': location.latitude, 'lng': location.longitude} of a found address.
Location(address) == [lat |-> address, lng |-> 0 - address]

GeocodeFound ==
    /\ pc = "geocode_addresses"
    /\ next_address < N
    /\ locations' = Append(locations, Location(At(addresses, next_address)))
    /\ next_address' = next_address + 1
    /\ UNCHANGED << addresses, traffic, pc, error, not_found, time_matrix, row,
                    calls, solver, ortools_route_indices, ortools_travel_time,
                    visited, route, current_index,
                    nearest_neighbor_route_indices, result >>

\* The unresolved address skipped instead of raising.
GeocodeNotFound_Skip ==
    /\ pc = "geocode_addresses"
    /\ next_address < N
    /\ not_found' = not_found \cup {At(addresses, next_address)}
    /\ next_address' = next_address + 1
    /\ UNCHANGED << addresses, traffic, pc, error, locations, time_matrix,
                    row, calls, solver, ortools_route_indices,
                    ortools_travel_time, visited, route, current_index,
                    nearest_neighbor_route_indices, result >>

GeocodeNotFound ==
    /\ pc = "geocode_addresses"
    /\ next_address < N
    /\ not_found' = not_found \cup {At(addresses, next_address)}
    /\ pc' = "raised"
    /\ error' = "ValueError: Geocoding failed"
    /\ UNCHANGED << addresses, traffic, next_address, locations, time_matrix,
                    row, calls, solver, ortools_route_indices,
                    ortools_travel_time, visited, route, current_index,
                    nearest_neighbor_route_indices, result >>

GeocodeReturn ==
    /\ pc = "geocode_addresses"
    /\ next_address = N
    /\ pc' = "get_osm_traffic_time_matrix"
    /\ UNCHANGED << addresses, traffic, error, next_address, locations,
                    not_found, time_matrix, row, calls, solver,
                    ortools_route_indices, ortools_travel_time, visited, route,
                    current_index, nearest_neighbor_route_indices, result >>

----------------------------------------------------------------------------
(* get_travel_time_with_traffic and get_osm_traffic_time_matrix *)

\* Loop positions of the two enumerate() loops.
i == Len(time_matrix)
j == Len(row)

\* Symmetric pairs deduplicated: only the upper triangle is looked up.
NeedsProvider_Upper(a, b) == a < b

\* The else branch of "if i == j": the pair is looked up at the provider.
NeedsProvider(a, b) == a # b

\* row.append(v), and time_matrix.append(row) when the inner loop ends.
AppendCell(v) ==
    LET r == Append(row, v) IN
    IF Len(r) = N
    THEN /\ time_matrix' = Append(time_matrix, r)
         /\ row' = << >>
    ELSE /\ row' = r
         /\ UNCHANGED time_matrix

SetOutcome(outcome) ==
    [calls EXCEPT ![Len(calls)] = [@ EXCEPT !.outcome = outcome]]

MatrixDiagonal ==
    /\ pc = "get_osm_traffic_time_matrix"
    /\ i < N
    /\ ~NeedsProvider(i, j)
    /\ AppendCell(0)
    /\ UNCHANGED << addresses, traffic, pc, error, next_address, locations,
                    not_found, calls, solver, ortools_route_indices,
                    ortools_travel_time, visited, route, current_index,
                    nearest_neighbor_route_indices, result >>

\* requests.get(api_url, params=params) is sent; no timeout is passed, so a
\* server that never answers leaves the request pending.
ProviderCall ==
    /\ pc = "get_osm_traffic_time_matrix"
    /\ i < N
    /\ NeedsProvider(i, j)
    /\ \E answers \in BOOLEAN :
          calls' = Append(calls, [origin |-> i, destination |-> j,
                                  answers |-> answers, outcome |-> "pending"])
    /\ pc' = "get_travel_time_with_traffic"
    /\ UNCHANGED << addresses, traffic, error, next_address, locations,
                    not_found, time_matrix, row, solver, ortools_route_indices,
                    ortools_travel_time, visited, route, current_index,
                    nearest_neighbor_route_indices, result >>

\* The response has a non-empty 'routes': its duration is returned.
ProviderRoute ==
    /\ pc = "get_travel_time_with_traffic"
    /\ calls[Len(calls)].answers
    /\ calls' = SetOutcome("route")
    /\ AppendCell(Duration(At(locations, i), At(locations, j)))
    /\ pc' = "get_osm_traffic_time_matrix"
    /\ UNCHANGED << addresses, traffic, error, next_address, locations,
                    not_found, solver, ortools_route_indices,
                    ortools_travel_time, visited, route, current_index,
                    nearest_neighbor_route_indices, result >>

\* The response has no route: float('inf') is returned.
ProviderNoRoute ==
    /\ pc = "get_travel_time_with_traffic"
    /\ calls[Len(calls)].answers
    /\ calls' = SetOutcome("no_route")
    /\ AppendCell(Inf)
    /\ pc' = "get_osm_traffic_time_matrix"
    /\ UNCHANGED << addresses, traffic, error, next_address, locations,
                    not_found, solver, ortools_route_indices,
                    ortools_travel_time, visited, route, current_index,
                    nearest_neighbor_route_indices, result >>

\* requests.get or response.json() raises; nothing on the way up to
\* optimize_route's caller catches it.
ProviderNetworkError ==
    /\ pc = "get_travel_time_with_traffic"
    /\ calls[Len(calls)].answers
    /\ calls' = SetOutcome("network_error")
    /\ pc' = "raised"
    /\ error' = "RequestException"
    /\ UNCHANGED << addresses, traffic, next_address, locations, not_found,
                    time_matrix, row, solver, ortools_route_indices,
                    ortools_travel_time, visited, route, current_index,
                    nearest_neighbor_route_indices, result >>

MatrixReturn ==
    /\ pc = "get_osm_traffic_time_matrix"
    /\ i = N
    /\ pc' = "solve_tsp"
    /\ UNCHANGED << addresses, traffic, error, next_address, locations,
                    not_found, time_matrix, row, calls, solver,
                    ortools_route_indices, ortools_travel_time, visited, route,
                    current_index, nearest_neighbor_route_indices, result >>

----------------------------------------------------------------------------
(* solve_tsp: the OR-Tools backend and the walk over its solution *)

\* manager.IndexToNode: indices 0..n-1 are the nodes, index n is the end of
\* the single vehicle's route, which is the depot 0.
IndexToNode(n, index) == IF index = n THEN 0 ELSE index

\* routing.IsEnd(index)
IsEnd(n, index) == index = n

\* The orders in which a solution of the backend visits the n nodes: every
\* node once, starting at the depot.
VisitOrders(n) ==
    { s \in [1..n -> 0..(n - 1)] :
        /\ s[1] = 0
        /\ \A a, b \in 1..n : a # b => s[a] # s[b] }

\* The values of routing.NextVar(index) in a solution visiting in this order.
NextVarOf(n, order) ==
    [index \in 0..(n - 1) |->
        LET k == CHOOSE k \in 1..n : order[k] = index IN
        IF k = n THEN n ELSE order[k + 1]]

\* What routing.SolveWithParameters can hand back when it has a solution.
Solutions(n) == { NextVarOf(n, order) : order \in VisitOrders(n) }

\* while not routing.IsEnd(index): route.append(...); index = solution.Value(...)
\* followed by the append of the end index's node.
RECURSIVE WalkSolution(_, _, _, _)
WalkSolution(n, solution, index, walked) ==
    IF IsEnd(n, index)
    THEN Append(walked, IndexToNode(n, index))
    ELSE WalkSolution(n, solution, solution[index],
                      Append(walked, IndexToNode(n, index)))

----------------------------------------------------------------------------
(* calculate_total_travel_time *)

\* sum(...) adds the generated terms to 0 from left to right.
RECURSIVE SumFrom(_, _, _, _)
SumFrom(m, r, k, total) ==
    IF k >= Len(r) - 1
    THEN total
    ELSE SumFrom(m, r, k + 1, FloatAdd(total, Cell(m, At(r, k), At(r, k + 1))))

\* The sum started one edge late: range(1, len(route) - 1).
calculate_total_travel_time_DropFirst(m, r) == SumFrom(m, r, 1, 0)

calculate_total_travel_time(m, r) == SumFrom(m, r, 0, 0)

\* Some cell of the matrix is float('inf').
HasInf(m) ==
    \E a \in 1..Len(m) : \E b \in 1..Len(m[a]) : m[a][b] = Inf

\* The backend finds a solution; optimize_route lines 122-126.
SolveTspFound ==
    /\ pc = "solve_tsp"
    /\ N >= 1
    /\ \E solution \in Solutions(N) :
          ortools_route_indices' = WalkSolution(N, solution, 0, << >>)
    /\ solver' = "tour"
    /\ ortools_travel_time' =
          calculate_total_travel_time(time_matrix, ortools_route_indices')
    /\ pc' = "solve_tsp_nearest_neighbor"
    /\ UNCHANGED << addresses, traffic, error, next_address, locations,
                    not_found, time_matrix, row, calls, visited, route,
                    current_index, nearest_neighbor_route_indices, result >>

\* The backend has no solution: solve_tsp returns None and optimize_route
\* raises.
SolveTspNone ==
    /\ pc = "solve_tsp"
    /\ N >= 1
    /\ solver' = "none"
    /\ ortools_route_indices' = None
    /\ pc' = "raised"
    /\ error' = "ValueError: Could not solve the TSP using OR-Tools."
    /\ UNCHANGED << addresses, traffic, next_address, locations, not_found,
                    time_matrix, row, calls, ortools_travel_time, visited,
                    route, current_index, nearest_neighbor_route_indices,
                    result >>

\* The backend rejects its input: no node for the depot (an empty matrix), or
\* a transit callback value that is not an integer (float('inf')).
SolveTspBackendError ==
    /\ pc = "solve_tsp"
    /\ N = 0 \/ HasInf(time_matrix)
    /\ pc' = "raised"
    /\ error' = "backend error"
    /\ UNCHANGED << addresses, traffic, next_address, locations, not_found,
                    time_matrix, row, calls, solver, ortools_route_indices,
                    ortools_travel_time, visited, route, current_index,
                    nearest_neighbor_route_indices, result >>

----------------------------------------------------------------------------
(* solve_tsp_nearest_neighbor *)

\* (i for i in range(n) if not visited[i]), in ascending order.
RECURSIVE Unvisited(_, _)
Unvisited(v, k) ==
    IF k >= Len(v) THEN << >>
    ELSE IF ~At(v, k) THEN << k >> \o Unvisited(v, k + 1)
    ELSE Unvisited(v, k + 1)

\* The key read from the column instead of the row: the cost towards the
\* current index.
Key_Transposed(m, current, candidate) == Cell(m, candidate, current)

\* key=lambda i: time_matrix[current_index][i]
Key(m, current, candidate) == Cell(m, current, candidate)

\* min replaced by a scan that lets a later candidate with an equal key win.
RECURSIVE MinByKey_Last(_, _, _, _, _)
MinByKey_Last(m, current, candidates, k, best) ==
    IF k > Len(candidates) THEN best
    ELSE IF Key(m, current, candidates[k]) <= Key(m, current, best)
         THEN MinByKey_Last(m, current, candidates, k + 1, candidates[k])
         ELSE MinByKey_Last(m, current, candidates, k + 1, best)

\* min(candidates, key=...): the first candidate is kept until a later one
\* has a strictly smaller key.
RECURSIVE MinByKey(_, _, _, _, _)
MinByKey(m, current, candidates, k, best) ==
    IF k > Len(candidates) THEN best
    ELSE IF Key(m, current, candidates[k]) < Key(m, current, best)
         THEN MinByKey(m, current, candidates, k + 1, candidates[k])
         ELSE MinByKey(m, current, candidates, k + 1, best)

\* The tour left open: the closing append forgotten.
CloseRoute_Open(r) == r

\* route.append(0)
CloseRoute(r) == Append(r, 0)

\* Lines 98-102.
NearestNeighborStart ==
    /\ pc = "solve_tsp_nearest_neighbor"
    /\ route = << >>
    /\ visited' = [k \in 1..N |-> k = 1]
    /\ route' = << 0 >>
    /\ current_index' = 0
    /\ UNCHANGED << addresses, traffic, pc, error, next_address, locations,
                    not_found, time_matrix, row, calls, solver,
                    ortools_route_indices, ortools_travel_time,
                    nearest_neighbor_route_indices, result >>

\* One iteration of "for _ in range(n - 1)".
NearestNeighborSelect ==
    /\ pc = "solve_tsp_nearest_neighbor"
    /\ route # << >>
    /\ Len(route) - 1 < N - 1
    /\ LET candidates == Unvisited(visited, 0)
           next_index == MinByKey(time_matrix, current_index, candidates, 2,
                                  candidates[1])
       IN /\ route' = Append(route, next_index)
          /\ visited' = [visited EXCEPT ![next_index + 1] = TRUE]
          /\ current_index' = next_index
    /\ UNCHANGED << addresses, traffic, pc, error, next_address, locations,
                    not_found, time_matrix, row, calls, solver,
                    ortools_route_indices, ortools_travel_time,
                    nearest_neighbor_route_indices, result >>

\* Lines 111-112 and optimize_route lines 128-135.
NearestNeighborReturn ==
    /\ pc = "solve_tsp_nearest_neighbor"
    /\ route # << >>
    /\ Len(route) - 1 = N - 1
    /\ route' = CloseRoute(route)
    /\ nearest_neighbor_route_indices' = route'
    /\ result' =
          [ortools |->
              [route |-> AddressesOf(ortools_route_indices),
               travel_time |-> ortools_travel_time],
           nearest_neighbor |->
              [route |-> AddressesOf(nearest_neighbor_route_indices'),
               travel_time |->
                  calculate_total_travel_time(time_matrix,
                                              nearest_neighbor_route_indices')]]
    /\ pc' = "returned"
    /\ UNCHANGED << addresses, traffic, error, next_address, locations,
                    not_found, time_matrix, row, calls, solver,
                    ortools_route_indices, ortools_travel_time, visited,
                    current_index >>

----------------------------------------------------------------------------
Init ==
    /\ addresses \in {[k \in 1..n |-> k] : n \in 0..MaxN}
    /\ traffic \in TrafficTables
    /\ pc = "geocode_addresses"
    /\ error = ""
    /\ next_address = 0
    /\ locations = << >>
    /\ not_found = {}
    /\ time_matrix = << >>
    /\ row = << >>
    /\ calls = << >>
    /\ solver = "unsolved"
    /\ ortools_route_indices = None
    /\ ortools_travel_time = 0
    /\ visited = << >>
    /\ route = << >>
    /\ current_index = 0
    /\ nearest_neighbor_route_indices = << >>
    /\ result = << >>

Next ==
    \/ GeocodeFound
    \/ GeocodeNotFound
    \/ GeocodeReturn
    \/ MatrixDiagonal
    \/ ProviderCall
    \/ ProviderRoute
    \/ ProviderNoRoute
    \/ ProviderNetworkError
    \/ MatrixReturn
    \/ SolveTspFound
    \/ SolveTspNone
    \/ SolveTspBackendError
    \/ NearestNeighborStart
    \/ NearestNeighborSelect
    \/ NearestNeighborReturn

Spec == Init /\ [][Next]_vars

FairSpec == Spec /\ WF_vars(Next)

----------------------------------------------------------------------------
(* Properties *)

\* t is a closed tour over n indices: n + 1 entries, 0 first and last, and
\* every index of 0..n-1 exactly once among the first n entries.
IsTour(t, n) ==
    /\ Len(t) = n + 1
    /\ t[1] = 0
    /\ t[n + 1] = 0
    /\ \A v \in 0..(n - 1) : Cardinality({k \in 1..n : t[k] = v}) = 1

\* C1: every tour a constructor returns (solve_tsp when it returns one,
\* solve_tsp_nearest_neighbor always) has length N+1, starts and ends at 0
\* and visits every index exactly once in its first N entries.
C1_TourShape ==
    /\ solver = "tour" => IsTour(ortools_route_indices, N)
    /\ pc = "returned" => IsTour(nearest_neighbor_route_indices, N)

C1_Witness ==
    /\ pc = "returned"
    /\ N >= 3
    /\ ortools_route_indices # nearest_neighbor_route_indices

\* The indices not among the first k entries of r.
UnvisitedAfter(r, k) == (0..(N - 1)) \ {r[m] : m \in 1..k}

\* C2: every index the nearest-neighbour loop appends is, among the indices
\* unvisited at that step, one of minimal cost from the current index, and
\* the lowest-numbered of those; also when all of them cost float('inf').
C2_NearestLowestIndex ==
    (pc \in {"solve_tsp_nearest_neighbor", "returned"} /\ route # << >>) =>
        \A k \in 2..Len(route) :
            k <= N =>
                LET current == route[k - 1]
                    chosen == route[k]
                    open == UnvisitedAfter(route, k - 1)
                IN /\ chosen \in open
                   /\ \A u \in open :
                         /\ Cell(time_matrix, current, chosen)
                               <= Cell(time_matrix, current, u)
                         /\ Cell(time_matrix, current, u)
                               = Cell(time_matrix, current, chosen)
                            => chosen <= u

\* A step with a strict minimum at a higher index, and a later step in which
\* the only candidates left are unreachable.
C2_Witness ==
    /\ pc = "returned"
    /\ N >= 3
    /\ route[2] = 2
    /\ Cell(time_matrix, 0, 2) < Cell(time_matrix, 0, 1)
    /\ Cell(time_matrix, 2, 1) = Inf

\* C3: a failed provider call for a pair never aborts the request, and the
\* pair's cell, once recorded, is float('inf').
C3_FailedLookupContained ==
    \A k \in 1..Len(calls) :
        calls[k].outcome \in {"no_route", "network_error"} =>
            /\ pc # "raised"
            /\ calls[k].origin < Len(time_matrix) =>
                  Cell(time_matrix, calls[k].origin, calls[k].destination) = Inf

\* C4: when the backend finds no tour, the request is not aborted (the
\* nearest-neighbour variant is still built and returned).
C4_NoTourPerVariant ==
    solver = "none" => pc # "raised"

\* C5: a request with fewer than two addresses never gets past geocoding (no
\* matrix work, no result) and fails with the insufficient-data error.
C5_InsufficientData ==
    N < 2 =>
        /\ pc \in {"geocode_addresses", "raised"}
        /\ calls = << >>
        /\ pc = "raised" =>
              error \in {"InsufficientDataError", "ValueError: Geocoding failed"}

\* Index sequences of bounded length, tours or not.
FreeTours == UNION {[1..k -> 0..(N - 1)] : k \in 0..MaxTourLen}

RECURSIVE PlainSum(_, _, _)
PlainSum(m, t, k) ==
    IF k >= Len(t) THEN 0
    ELSE m[t[k] + 1][t[k + 1] + 1] + PlainSum(m, t, k + 1)

\* Unreachable when some traversed edge is, the arithmetic sum otherwise.
TourCost(m, t) ==
    IF \E k \in 1..(Len(t) - 1) : m[t[k] + 1][t[k + 1] + 1] = Inf
    THEN Inf
    ELSE PlainSum(m, t, 1)

\* C6: calculate_total_travel_time is float('inf') when the tour traverses an
\* unreachable edge and the sum of the traversed cells otherwise; for every
\* matrix the build produces, every index sequence, and both returned tours.
C6_TotalPropagatesInf ==
    /\ pc = "solve_tsp" =>
          \A t \in FreeTours :
              calculate_total_travel_time(time_matrix, t)
                 = TourCost(time_matrix, t)
    /\ solver = "tour" =>
          ortools_travel_time = TourCost(time_matrix, ortools_route_indices)
    /\ pc = "returned" =>
          result.nearest_neighbor.travel_time
             = TourCost(time_matrix, nearest_neighbor_route_indices)

C6_Witness ==
    /\ pc = "returned"
    /\ N >= 3
    /\ result.nearest_neighbor.travel_time = Inf
    /\ result.ortools.travel_time < Inf
    /\ result.ortools.travel_time > N

\* The matrix build has run to its end.
MatrixBuilt ==
    /\ pc \notin {"geocode_addresses", "get_osm_traffic_time_matrix",
                  "get_travel_time_with_traffic"}
    /\ error \notin {"ValueError: Geocoding failed", "RequestException"}

\* C7: the provider is never called for a pair (i, i) nor twice for the same
\* ordered pair, every diagonal cell is 0, and a finished build has called it
\* for each of the N*(N-1) ordered pairs i # j.
C7_OneCallPerOrderedPair ==
    /\ \A k \in 1..Len(calls) : calls[k].origin # calls[k].destination
    /\ \A a, b \in 1..Len(calls) :
          a # b => << calls[a].origin, calls[a].destination >>
                      # << calls[b].origin, calls[b].destination >>
    /\ \A a \in 1..Len(time_matrix) : time_matrix[a][a] = 0
    /\ MatrixBuilt =>
          /\ Len(calls) = N * (N - 1)
          /\ Len(time_matrix) = N
          /\ {<< calls[k].origin, calls[k].destination >> : k \in 1..Len(calls)}
                = {p \in (0..(N - 1)) \X (0..(N - 1)) : p[1] # p[2]}

C7_Witness ==
    /\ MatrixBuilt
    /\ N >= 3
    /\ Cell(time_matrix, 0, 1) # Cell(time_matrix, 1, 0)

\* C8: once the geocoder has failed for an address the request has ended with
\* the geocoding error, with no provider call, no matrix, no constructor run
\* and no result; and a request that gets past geocoding has a location for
\* every address, in order.
C8_GeocodingFailureAborts ==
    /\ not_found # {} =>
          /\ pc = "raised"
          /\ error = "ValueError: Geocoding failed"
          /\ calls = << >>
          /\ time_matrix = << >>
          /\ row = << >>
          /\ solver = "unsolved"
          /\ route = << >>
          /\ result = << >>
    /\ pc \notin {"geocode_addresses", "raised"} =>
          locations = [k \in 1..N |-> Location(addresses[k])]

C8_Witness ==
    /\ not_found # {}
    /\ pc = "raised"
    /\ Len(locations) >= 2

\* C9: every provider call comes back (with a value, a failure or a timeout).
C9_ProviderCallReturns ==
    (pc = "get_travel_time_with_traffic") ~> (pc # "get_travel_time_with_traffic")

\* Zero diagonal and every other cost 1.
AllOnes(m) ==
    /\ Len(m) = N
    /\ \A a, b \in 1..N : m[a][b] = IF a = b THEN 0 ELSE 1

\* C10: on the matrix with zero diagonal and all other costs 1, N >= 2, the
\* nearest-neighbour tour is 0, 1, ..., N-1, 0 and its total travel time N.
C10_UniformMatrixIdentityTour ==
    (pc = "returned" /\ N >= 2 /\ AllOnes(time_matrix)) =>
        /\ nearest_neighbor_route_indices
              = [k \in 1..(N + 1) |-> IF k = N + 1 THEN 0 ELSE k - 1]
        /\ result.nearest_neighbor.travel_time = N

C10_Witness ==
    /\ pc = "returned"
    /\ N >= 3
    /\ AllOnes(time_matrix)
    /\ result.nearest_neighbor.travel_time = N

====
